---- MODULE Spec2Model ----
(***************************************************************************)
(* Model of grass-checker.py: the GrassChecker class (contribution query,  *)
(* Discord webhook notification, check_and_notify) and main().             *)
(*                                                                         *)
(* Strings that the program builds or inspects character by character are  *)
(* sequences of one-character strings; non-ASCII text of the source is     *)
(* written as ASCII tokens ("nen" for U+5E74 and so on).  JSON values and  *)
(* Python return values are tagged records.                                *)
(***************************************************************************)
EXTENDS Integers, Sequences, FiniteSets, TLC

VARIABLES entry,          \* the operation this run invokes: main() or one method
          clock,          \* the UTC wall clock of the run
          env,            \* the process environment
          pc,             \* the operation about to run
          checker,        \* the GrassChecker instance
          response,       \* what the last contribution query was answered
          contributions,  \* check_and_notify's local: get_today_contributions()
          weekly_total,   \* main's local: get_weekly_contributions()
          message,        \* the local variable message of the running function
          sendResult,     \* the value of the last send_discord_notification()
          success,        \* main's local: check_and_notify()
          requests,       \* the HTTP requests issued so far, in order
          sendCalls,      \* the number of calls of send_discord_notification
          uncaught,       \* the exception that ended the process, if any
          exitCode        \* the exit status, once the process has exited

vars == <<entry, clock, env, pc, checker, response, contributions,
          weekly_total, message, sendResult, success, requests, sendCalls,
          uncaught, exitCode>>

(***************************************************************************)
(* Bounds of the explored inputs.                                          *)
(***************************************************************************)
MaxWeeks == 2
MaxDays == 2
MaxCount == 1
MaxTotal == 2

(***************************************************************************)
(* JSON values (the result of response.json()).                            *)
(***************************************************************************)
JNull == [t |-> "null", v |-> 0]
JInt(n) == [t |-> "int", v |-> n]
JStr(s) == [t |-> "str", v |-> s]
JArr(s) == [t |-> "arr", v |-> s]
JObj(f) == [t |-> "obj", v |-> f]
EmptyObj == [k \in {} |-> JNull]

(* A raised Python exception travelling through an expression. *)
Exc(name) == [t |-> "exc", v |-> name]

(***************************************************************************)
(* Python return values: an int, None, or a raised exception.              *)
(***************************************************************************)
PyInt(n) == [tag |-> "int", v |-> n, exc |-> ""]
PyNone == [tag |-> "none", v |-> 0, exc |-> ""]
PyRaise(name) == [tag |-> "raise", v |-> 0, exc |-> name]
NotCalled == [tag |-> "not_called", v |-> 0, exc |-> ""]

(***************************************************************************)
(* Clock and dates.  A date is a day number counted from 1970-01-01 (day   *)
(* 0, a Thursday); the explored days all lie in January 1970.              *)
(***************************************************************************)
Clocks == [utcDay : {8, 9}, utcHour : {14, 15}]

(* The date of the clock read without the +09:00 offset. *)
JstDate_utc(c) == c.utcDay

(* datetime.now(timezone(timedelta(hours=9))).date() *)
JstDate(c) == c.utcDay + ((c.utcHour + 9) \div 24)

(* datetime.weekday(): 0 = Monday ... 6 = Sunday *)
Weekday(d) == (d + 3) % 7

Pad2(n) == IF n < 10 THEN "0" \o ToString(n) ELSE ToString(n)

(* date.isoformat() *)
IsoFormat(d) == "1970-01-" \o Pad2(d + 1)

(* strftime("%Y<nen>%m<gatsu>%d<nichi>") *)
StrfJa(d) == <<"1", "9", "7", "0", "nen", "0", "1", "gatsu">>
             \o (IF d + 1 < 10 THEN <<"0", ToString(d + 1)>>
                 ELSE <<ToString((d + 1) \div 10), ToString((d + 1) % 10)>>)
             \o <<"nichi">>

(***************************************************************************)
(* Environment variables: unset (os.getenv gives None), or a string.       *)
(***************************************************************************)
Unset == [isset |-> FALSE, v |-> <<>>]
Val(s) == [isset |-> TRUE, v |-> s]

(* Python truthiness of an Optional[str] *)
Truthy(x) == x.isset /\ Len(x.v) > 0

UserIds == {<<"7">>, <<"4", "2">>}
EnvName == {Unset, Val(<<>>), Val(<<"u">>)}
EnvToken == {Unset, Val(<<>>), Val(<<"t">>)}
EnvUrl == {Unset, Val(<<>>), Val(<<"w">>)}
EnvUserId == {Unset, Val(<<>>)} \cup {Val(i) : i \in UserIds}

Envs == [GITHUB_USERNAME : EnvName, GITHUB_TOKEN : EnvToken,
         DISCORD_WEBHOOK_URL : EnvUrl, DISCORD_USER_ID : EnvUserId]

(* GrassChecker.__init__ *)
GrassChecker(e) == [github_username |-> e.GITHUB_USERNAME.v,
                    github_token |-> e.GITHUB_TOKEN.v,
                    discord_webhook_url |-> e.DISCORD_WEBHOOK_URL.v,
                    discord_user_id |-> e.DISCORD_USER_ID.v]

NoChecker == [github_username |-> <<>>, github_token |-> <<>>,
              discord_webhook_url |-> <<>>, discord_user_id |-> <<>>]

(* any([...]) in place of all([...]) *)
AllSet_any(e) == \/ Truthy(e.GITHUB_USERNAME)
                 \/ Truthy(e.GITHUB_TOKEN)
                 \/ Truthy(e.DISCORD_WEBHOOK_URL)
                 \/ Truthy(e.DISCORD_USER_ID)

(* all([...]) over the four values read from the environment *)
AllSet(e) == /\ Truthy(e.GITHUB_USERNAME)
             /\ Truthy(e.GITHUB_TOKEN)
             /\ Truthy(e.DISCORD_WEBHOOK_URL)
             /\ Truthy(e.DISCORD_USER_ID)

FullEnvs == {e \in Envs : AllSet(e)}

(***************************************************************************)
(* The contribution calendars and the JSON documents GitHub may answer.    *)
(***************************************************************************)
CalDates == {8, 9}

SeqsUpTo(S, n) == UNION {[1..k -> S] : k \in 0..n}

Days == {JObj([contributionCount |-> JInt(c), date |-> JStr(IsoFormat(d))]) :
            c \in 0..MaxCount, d \in CalDates}

Weeks == {JObj([contributionDays |-> JArr(ds)]) : ds \in SeqsUpTo(Days, MaxDays)}

Calendars == {JArr(ws) : ws \in SeqsUpTo(Weeks, MaxWeeks)}

TodayPath == <<"data", "user", "contributionsCollection",
               "contributionCalendar", "weeks">>

WeeklyPath == <<"data", "user", "contributionsCollection",
                "contributionCalendar", "totalContributions">>

(* The document whose nested fields follow path down to leaf; when brk is   *)
(* in 1..Len(path), the field at that depth is missing or null instead.    *)
RECURSIVE MkDoc(_, _, _, _, _)
MkDoc(path, i, leaf, brk, kind) ==
    IF i > Len(path) THEN leaf
    ELSE IF i = brk
         THEN IF kind = "missing" THEN JObj(EmptyObj)
              ELSE JObj([k \in {path[i]} |-> JNull])
         ELSE JObj([k \in {path[i]} |-> MkDoc(path, i + 1, leaf, brk, kind)])

WellFormed(path, leaf) == MkDoc(path, 1, leaf, 0, "missing")

Malformed(path) == {MkDoc(path, 1, JNull, b, k) :
                       b \in 1..Len(path), k \in {"missing", "null"}}
                   \cup {JNull}

ErrorBody == JObj([message |-> JStr("Bad credentials")])

Response(status, json, doc) == [status |-> status, json |-> json, doc |-> doc]

NoResponse == Response("none", FALSE, JNull)

FailedResponses == {Response("connection_error", FALSE, JNull),
                    Response("timeout", FALSE, JNull),
                    Response("http_error", TRUE, ErrorBody),
                    Response("http_error", FALSE, JNull),
                    Response("ok", FALSE, JNull)}

TodayResponses == FailedResponses
                  \cup {Response("ok", TRUE, WellFormed(TodayPath, c)) : c \in Calendars}
                  \cup {Response("ok", TRUE, d) : d \in Malformed(TodayPath)}

WeeklyResponses == FailedResponses
                   \cup {Response("ok", TRUE, WellFormed(WeeklyPath, JInt(n))) :
                            n \in 0..MaxTotal}
                   \cup {Response("ok", TRUE, d) : d \in Malformed(WeeklyPath)}

(***************************************************************************)
(* requests.post / raise_for_status / response.json                        *)
(***************************************************************************)
RequestExceptions == {"ConnectionError", "Timeout", "HTTPError",
                      "requests.JSONDecodeError"}

(* requests.post(..., timeout=10): the exception it raises, or "" *)
PostRaises(resp) == IF resp.status = "connection_error" THEN "ConnectionError"
                    ELSE IF resp.status = "timeout" THEN "Timeout"
                    ELSE ""

(* raise_for_status left out: an error status raises nothing. *)
RaiseForStatus_omitted(resp) == ""

(* response.raise_for_status(): the exception it raises, or "" *)
RaiseForStatus(resp) == IF resp.status = "http_error" THEN "HTTPError" ELSE ""

(* response.json(); requests >= 2.27 raises its own JSONDecodeError (a     *)
(* RequestException), older versions a plain ValueError.                   *)
ResponseJson(resp, modern) ==
    IF resp.json THEN resp.doc
    ELSE Exc(IF modern THEN "requests.JSONDecodeError" ELSE "ValueError")

(* x.get(key, default) *)
Get(x, key, default) ==
    IF x.t = "exc" THEN x
    ELSE IF x.t = "obj"
         THEN IF key \in DOMAIN x.v THEN x.v[key] ELSE default
         ELSE Exc("AttributeError")

RECURSIVE KeySeq(_)
KeySeq(K) == IF K = {} THEN <<>>
             ELSE LET k == CHOOSE k \in K : TRUE
                  IN <<JStr(k)>> \o KeySeq(K \ {k})

(* iter(x): the items a for loop visits, or the exception it raises *)
Iter(x) == IF x.t = "exc" THEN x
           ELSE IF x.t = "arr" THEN x
           ELSE IF x.t = "obj" THEN JArr(KeySeq(DOMAIN x.v))
           ELSE Exc("TypeError")

Return(x) == [t |-> "return", v |-> x]
Fallthrough == [t |-> "fallthrough", v |-> 0]

(* for day in week.get("contributionDays", []): ... (from item i on) *)
RECURSIVE ScanDays(_, _, _)
ScanDays(days, i, today) ==
    IF i > Len(days) THEN Fallthrough
    ELSE LET date == Get(days[i], "date", JNull)
         IN IF date.t = "exc" THEN date
            ELSE IF date = JStr(today)
                 THEN LET c == Get(days[i], "contributionCount", JInt(0))
                      IN IF c.t = "exc" THEN c ELSE Return(c)
                 ELSE ScanDays(days, i + 1, today)

(* for week in weeks: ... (from item i on) *)
RECURSIVE ScanWeeks(_, _, _)
ScanWeeks(weeks, i, today) ==
    IF i > Len(weeks) THEN Fallthrough
    ELSE LET days == Iter(Get(weeks[i], "contributionDays", JArr(<<>>)))
         IN IF days.t = "exc" THEN days
            ELSE LET r == ScanDays(days.v, 1, today)
                 IN IF r.t = "fallthrough" THEN ScanWeeks(weeks, i + 1, today)
                    ELSE r

(* data.get("data", {}).get("user", {})....get(last, default) *)
GetPath(data, path, default) ==
    Get(Get(Get(Get(Get(data, path[1], JObj(EmptyObj)),
                        path[2], JObj(EmptyObj)),
                    path[3], JObj(EmptyObj)),
                path[4], JObj(EmptyObj)),
        path[5], default)

(* The body of the try block of get_today_contributions: the value it      *)
(* returns (a JSON value wrapped by Return) or the exception it raises.    *)
TodayTryBody(resp, today, modern) ==
    IF PostRaises(resp) # "" THEN Exc(PostRaises(resp))
    ELSE IF RaiseForStatus(resp) # "" THEN Exc(RaiseForStatus(resp))
    ELSE LET data == ResponseJson(resp, modern)
             weeks == Iter(GetPath(data, TodayPath, JArr(<<>>)))
         IN IF weeks.t = "exc" THEN weeks
            ELSE LET r == ScanWeeks(weeks.v, 1, today)
                 IN IF r.t = "fallthrough" THEN Return(JInt(0)) ELSE r

(* The body of the try block of get_weekly_contributions. *)
WeeklyTryBody(resp, modern) ==
    IF PostRaises(resp) # "" THEN Exc(PostRaises(resp))
    ELSE IF RaiseForStatus(resp) # "" THEN Exc(RaiseForStatus(resp))
    ELSE LET data == ResponseJson(resp, modern)
             total == GetPath(data, WeeklyPath, JInt(0))
         IN IF total.t = "exc" THEN total ELSE Return(total)

(* The except clauses shared by both queries, and the value handed to the  *)
(* caller: an int, None, or an exception no clause catches.                *)
ExceptClauses(r) ==
    IF r.t = "exc"
    THEN IF r.v \in RequestExceptions THEN PyNone
         ELSE IF r.v \in {"KeyError", "TypeError"} THEN PyNone
         ELSE PyRaise(r.v)
    ELSE IF r.v.t = "int" THEN PyInt(r.v.v)
    ELSE PyNone

get_today_contributions(resp, today, modern) ==
    ExceptClauses(TodayTryBody(resp, today, modern))

get_weekly_contributions(resp, modern) ==
    ExceptClauses(WeeklyTryBody(resp, modern))

(***************************************************************************)
(* The HTTP requests.                                                      *)
(***************************************************************************)
GithubUrl == <<"https://api.github.com/graphql">>

Headers(chk) == [Authorization |-> <<"B", "e", "a", "r", "e", "r", " ">>
                                   \o chk.github_token,
                 ContentType |-> "application/json"]

NoHeaders == [Authorization |-> <<>>, ContentType |-> ""]

TodayQuery(chk) ==
    [url |-> GithubUrl, headers |-> Headers(chk), timeout |-> 10,
     json |-> [query |-> "contributionDays",
               variables |-> [userName |-> chk.github_username]]]

WeeklyQuery(chk, today) ==
    [url |-> GithubUrl, headers |-> Headers(chk), timeout |-> 10,
     json |-> [query |-> "totalContributions",
               variables |-> [userName |-> chk.github_username,
                              from |-> IsoFormat(today - 6),
                              to |-> IsoFormat(today)]]]

(* The payload without the space after the mention. *)
Payload_nospace(chk, msg) ==
    [content |-> <<"<", "@">> \o chk.discord_user_id \o <<">">> \o msg]

(* payload = {"content": f"<@{self.discord_user_id}> {message}"} *)
Payload(chk, msg) ==
    [content |-> <<"<", "@">> \o chk.discord_user_id \o <<">", " ">> \o msg]

(* A failed post tried a second time. *)
SendRequests_retry(chk, msg, resp) ==
    LET req == [url |-> chk.discord_webhook_url, headers |-> NoHeaders,
                timeout |-> 10, json |-> Payload(chk, msg)]
    IN IF resp.status = "ok" THEN <<req>> ELSE <<req, req>>

(* The requests one call of send_discord_notification issues. *)
SendRequests(chk, msg, resp) ==
    << [url |-> chk.discord_webhook_url, headers |-> NoHeaders,
        timeout |-> 10, json |-> Payload(chk, msg)] >>

DiscordResponses == {Response("ok", FALSE, JNull),
                     Response("connection_error", FALSE, JNull),
                     Response("timeout", FALSE, JNull),
                     Response("http_error", TRUE, ErrorBody)}

(* The value send_discord_notification returns. *)
send_discord_notification(resp) ==
    IF PostRaises(resp) # "" THEN ~ (PostRaises(resp) \in RequestExceptions)
    ELSE IF RaiseForStatus(resp) # ""
         THEN ~ (RaiseForStatus(resp) \in RequestExceptions)
         ELSE TRUE

IsGithub(r) == r.url = GithubUrl
IsDiscord(r) == r.url # GithubUrl

(***************************************************************************)
(* Messages.                                                               *)
(***************************************************************************)
Unbound == [bound |-> FALSE, v |-> <<>>]
Bound(s) == [bound |-> TRUE, v |-> s]

(* f"<seedling> {today}<no grass yet, commit today too>" *)
NoGrassMessage(d) == <<"seedling", " ">> \o StrfJa(d)
                     \o <<"no-kusa-ga-haete-imasen", "!",
                          "kyou-mo-commit-shimashou", "!">>

(* f"<chart> <this week's total is> {weekly_total} <blades, well done>" *)
WeeklyMessage(n) == <<"chart", " ", "konshuu-no-kusa-goukei-wa", " ",
                      ToString(n), " ", "hon-desu", "!",
                      "otsukaresama-deshita", "!">>

Bodies == {<<>>, <<"h", "e", "l", "l", "o">>, <<" ", "x">>, <<"<", "@", "7", ">", " ">>}

(***************************************************************************)
(* Control flow.                                                           *)
(***************************************************************************)
Entries == {"main", "get_weekly_contributions", "send_discord_notification"}

(* sys.exit as a call that returns: main goes on to the weekday test. *)
MainExitTarget_fallthrough(weekday) ==
    IF weekday = 5 THEN "get_weekly_contributions" ELSE "exited"

(* Where control goes from sys.exit(0 if success else 1) in main: the      *)
(* SystemExit it raises is caught nowhere, whatever the weekday.           *)
MainExitTarget(weekday) == "exited"

(* The test "not contributions" in place of "contributions is None" and    *)
(* "== 0": None is taken for a count of zero.                              *)
CheckBranch_falsy(c, msg) ==
    IF c.tag = "raise" THEN "propagate"
    ELSE IF c.v = 0 THEN "notify"
    ELSE IF msg.bound THEN "notify"
    ELSE "unbound_local"

(* The four ways check_and_notify continues once the fetch has returned. *)
CheckBranch(c, msg) ==
    IF c.tag = "raise" THEN "propagate"
    ELSE IF c.tag = "none" THEN "return_false"
    ELSE IF c.v = 0 THEN "notify"
    ELSE IF msg.bound THEN "notify"
    ELSE "unbound_local"

(* The two exit statuses swapped. *)
ExitStatus_swapped(ok) == IF ok THEN 1 ELSE 0

(* sys.exit(0 if success else 1) *)
ExitStatus(ok) == IF ok THEN 0 ELSE 1

Init ==
    /\ entry \in Entries
    /\ clock \in Clocks
    /\ env \in IF entry = "main" THEN Envs ELSE FullEnvs
    /\ pc = entry
    /\ checker = IF entry = "main" THEN NoChecker ELSE GrassChecker(env)
    /\ response = NoResponse
    /\ contributions = NotCalled
    /\ weekly_total = NotCalled
    /\ message \in IF entry = "send_discord_notification"
                   THEN {Bound(b) : b \in Bodies} ELSE {Unbound}
    /\ sendResult = "not_called"
    /\ success = FALSE
    /\ requests = <<>>
    /\ sendCalls = 0
    /\ uncaught = ""
    /\ exitCode = <<>>

(* main, up to the call of check_and_notify *)
MainReadConfig ==
    /\ pc = "main"
    /\ IF AllSet(env)
       THEN /\ checker' = GrassChecker(env)
            /\ pc' = "get_today_contributions"
            /\ exitCode' = exitCode
       ELSE /\ checker' = checker
            /\ pc' = "exited"
            /\ exitCode' = <<1>>
    /\ UNCHANGED <<entry, clock, env, response, contributions, weekly_total,
                   message, sendResult, success, requests, sendCalls, uncaught>>

(* check_and_notify: the call of get_today_contributions *)
GetTodayContributions ==
    /\ pc = "get_today_contributions"
    /\ \E resp \in TodayResponses, modern \in BOOLEAN :
          /\ response' = resp
          /\ requests' = Append(requests, TodayQuery(checker))
          /\ contributions' =
                get_today_contributions(resp, IsoFormat(JstDate(clock)), modern)
    /\ pc' = "check_contributions"
    /\ UNCHANGED <<entry, clock, env, checker, weekly_total, message,
                   sendResult, success, sendCalls, uncaught, exitCode>>

(* check_and_notify: from the test of contributions to the call of         *)
(* send_discord_notification or to the return                              *)
CheckAndNotify ==
    /\ pc = "check_contributions"
    /\ LET branch == CheckBranch(contributions, message)
       IN /\ message' = IF branch = "notify" /\ contributions.v = 0
                        THEN Bound(NoGrassMessage(JstDate(clock)))
                        ELSE message
          /\ pc' = CASE branch = "notify" -> "send_discord_notification"
                     [] branch = "return_false" -> "main_exit"
                     [] OTHER -> "exited"
          /\ success' = IF branch = "return_false" THEN FALSE ELSE success
          /\ uncaught' = CASE branch = "propagate" -> contributions.exc
                           [] branch = "unbound_local" -> "UnboundLocalError"
                           [] OTHER -> uncaught
          /\ exitCode' = IF branch \in {"propagate", "unbound_local"}
                         THEN <<1>> ELSE exitCode
    /\ response' = NoResponse
    /\ UNCHANGED <<entry, clock, env, checker, contributions, weekly_total,
                   sendResult, requests, sendCalls>>

(* send_discord_notification, and the return to its caller *)
SendDiscordNotification ==
    /\ pc = "send_discord_notification"
    /\ \E resp \in DiscordResponses :
          /\ requests' = requests \o SendRequests(checker, message.v, resp)
          /\ sendResult' = IF send_discord_notification(resp) THEN "ok" ELSE "failed"
          /\ success' = IF entry = "main" /\ weekly_total.tag = "not_called"
                        THEN send_discord_notification(resp) ELSE success
    /\ sendCalls' = sendCalls + 1
    /\ pc' = IF entry # "main" THEN "returned"
             ELSE IF weekly_total.tag = "not_called" THEN "main_exit"
             ELSE "exited"
    /\ UNCHANGED <<entry, clock, env, checker, response, contributions,
                   weekly_total, message, uncaught, exitCode>>

(* main: sys.exit(0 if success else 1) *)
MainSysExit ==
    /\ pc = "main_exit"
    /\ exitCode' = <<ExitStatus(success)>>
    /\ pc' = MainExitTarget(Weekday(JstDate(clock)))
    /\ UNCHANGED <<entry, clock, env, checker, response, contributions,
                   weekly_total, message, sendResult, success, requests,
                   sendCalls, uncaught>>

(* get_weekly_contributions, and what its caller does with the total *)
GetWeeklyContributions ==
    /\ pc = "get_weekly_contributions"
    /\ \E resp \in WeeklyResponses, modern \in BOOLEAN :
          LET total == get_weekly_contributions(resp, modern)
          IN /\ response' = resp
             /\ requests' = Append(requests, WeeklyQuery(checker, JstDate(clock)))
             /\ weekly_total' = total
             /\ uncaught' = IF total.tag = "raise" THEN total.exc ELSE uncaught
             /\ message' = IF entry = "main" /\ total.tag = "int"
                           THEN Bound(WeeklyMessage(total.v)) ELSE message
             /\ pc' = IF entry = "main"
                      THEN IF total.tag = "int" THEN "send_discord_notification"
                           ELSE "exited"
                      ELSE IF total.tag = "raise" THEN "raised" ELSE "returned"
    /\ UNCHANGED <<entry, clock, env, checker, contributions, sendResult,
                   success, sendCalls, exitCode>>

Next ==
    \/ MainReadConfig
    \/ GetTodayContributions
    \/ CheckAndNotify
    \/ SendDiscordNotification
    \/ MainSysExit
    \/ GetWeeklyContributions

Spec == Init /\ [][Next]_vars

TypeOK ==
    /\ pc \in {"main", "get_today_contributions", "check_contributions",
               "send_discord_notification", "main_exit",
               "get_weekly_contributions", "exited", "returned", "raised"}
    /\ Len(exitCode) <= 1
    /\ (pc = "exited") = (exitCode # <<>>)

(***************************************************************************)
(* Vocabulary of the properties, stated on the state alone.                *)
(***************************************************************************)
ConfigNames == {"GITHUB_USERNAME", "GITHUB_TOKEN", "DISCORD_WEBHOOK_URL",
                "DISCORD_USER_ID"}

Present(name) == env[name].isset /\ env[name].v # <<>>

ConfigPresent == \A name \in ConfigNames : Present(name)

GithubRequests == {i \in DOMAIN requests : requests[i].url = GithubUrl}

WebhookRequests == {i \in DOMAIN requests : requests[i].url # GithubUrl}

(* Today's date in Japan, read off the clock by hand: 14:00 UTC is 23:00   *)
(* of the same day in Japan, 15:00 UTC is 00:00 of the next.               *)
TodayInJapan ==
    CASE clock = [utcDay |-> 8, utcHour |-> 14] -> "1970-01-09"
      [] clock = [utcDay |-> 8, utcHour |-> 15] -> "1970-01-10"
      [] clock = [utcDay |-> 9, utcHour |-> 14] -> "1970-01-10"
      [] clock = [utcDay |-> 9, utcHour |-> 15] -> "1970-01-11"

WellFormedTodayDocs == {WellFormed(TodayPath, c) : c \in Calendars}

MalformedTodayDocs == Malformed(TodayPath)

(* The days of a well-formed document, week after week, as (date, count). *)
RECURSIVE FlatDays(_, _)
FlatDays(weeks, i) ==
    IF i > Len(weeks) THEN <<>>
    ELSE LET ds == weeks[i].v.contributionDays.v
         IN [k \in DOMAIN ds |-> [date |-> ds[k].v.date.v,
                                   count |-> ds[k].v.contributionCount.v]]
            \o FlatDays(weeks, i + 1)

ReceivedDays ==
    FlatDays(response.doc.v.data.v.user.v.contributionsCollection.v
                 .contributionCalendar.v.weeks.v, 1)

TodayFetched == entry = "main" /\ pc = "check_contributions"

CalendarReceived == /\ TodayFetched
                    /\ response.status = "ok"
                    /\ response.json
                    /\ response.doc \in WellFormedTodayDocs

(***************************************************************************)
(* C1: in a run of main with all four configuration values present, a      *)
(* fetch that yields a count followed by a send that succeeds ends in exit *)
(* status 0, and a failed fetch or a failed send ends in exit status 1.    *)
(***************************************************************************)
C1_ExitCodeFollowsOutcome ==
    (entry = "main" /\ ConfigPresent /\ pc = "exited") =>
        /\ (contributions.tag = "int" /\ sendResult = "ok") => exitCode = <<0>>
        /\ (contributions.tag \in {"none", "raise"} \/ sendResult = "failed")
               => exitCode = <<1>>

C1_Witness ==
    /\ entry = "main" /\ ConfigPresent /\ pc = "exited"
    /\ contributions.tag = "int" /\ sendResult = "ok"
    /\ Cardinality(WebhookRequests) = 1
    /\ exitCode = <<0>>

(***************************************************************************)
(* C2: every run of main whose fetch yields a count, a count greater than  *)
(* 0 included, calls the notifier and ends with the exit status of the     *)
(* send: 0 when it succeeded, 1 when it failed.                            *)
(***************************************************************************)
C2_EveryCountIsNotified ==
    (entry = "main" /\ pc = "exited" /\ contributions.tag = "int") =>
        /\ sendCalls = 1
        /\ Cardinality(WebhookRequests) = 1
        /\ sendResult = "ok" => exitCode = <<0>>
        /\ sendResult = "failed" => exitCode = <<1>>

(***************************************************************************)
(* C3: when one of the four configuration values is absent or empty, main  *)
(* exits with status 1 and no HTTP request is issued in that run.          *)
(***************************************************************************)
C3_MissingConfigExitsWithoutRequest ==
    (entry = "main" /\ ~ ConfigPresent) =>
        /\ requests = <<>>
        /\ sendCalls = 0
        /\ pc \in {"main", "exited"}
        /\ pc = "exited" => exitCode = <<1>>

C3_Witness ==
    /\ entry = "main" /\ pc = "exited" /\ exitCode = <<1>>
    /\ Present("GITHUB_USERNAME") /\ Present("GITHUB_TOKEN")
    /\ Present("DISCORD_WEBHOOK_URL")
    /\ env["DISCORD_USER_ID"] = Val(<<>>)
    /\ requests = <<>>

(***************************************************************************)
(* C4: when get_today_contributions returns None, check_and_notify issues  *)
(* no webhook request and the process exits with status 1; a webhook       *)
(* request of main is only ever issued after a fetch that yielded a count. *)
(***************************************************************************)
C4_FetchErrorSkipsNotification ==
    entry = "main" =>
        /\ contributions.tag = "none" =>
              /\ WebhookRequests = {}
              /\ sendCalls = 0
              /\ pc \in {"check_contributions", "main_exit", "exited"}
              /\ pc = "exited" => exitCode = <<1>>
        /\ (WebhookRequests # {} \/ pc = "send_discord_notification")
              => contributions.tag = "int"

C4_Witness ==
    /\ entry = "main" /\ pc = "exited"
    /\ contributions.tag = "none"
    /\ Len(requests) = 1
    /\ exitCode = <<1>>

(***************************************************************************)
(* C5: for a received calendar, get_today_contributions returns the count  *)
(* of the first day, in week and day order, whose date is today's date in  *)
(* Japan, and 0 (not None) when no day has that date.                      *)
(***************************************************************************)
C5_TodayCountFromCalendar ==
    CalendarReceived =>
        LET days == ReceivedDays
            hits == {i \in DOMAIN days : days[i].date = TodayInJapan}
        IN IF hits = {} THEN contributions = PyInt(0)
           ELSE \E i \in hits : /\ \A j \in hits : i <= j
                                /\ contributions = PyInt(days[i].count)

C5_Witness ==
    /\ CalendarReceived
    /\ Len(ReceivedDays) >= 3
    /\ ReceivedDays[1].date # TodayInJapan
    /\ ReceivedDays[1].count = 0
    /\ ReceivedDays[Len(ReceivedDays)].date = TodayInJapan
    /\ ReceivedDays[Len(ReceivedDays)].count = 1
    /\ contributions = PyInt(1)

(***************************************************************************)
(* C6: when the contribution query is answered successfully with JSON in   *)
(* which one of data, user, contributionsCollection, contributionCalendar, *)
(* weeks is missing or null, get_today_contributions returns None.         *)
(***************************************************************************)
C6_MalformedShapeGivesNone ==
    (TodayFetched /\ response.status = "ok" /\ response.json
        /\ response.doc \in MalformedTodayDocs)
        => contributions = PyNone

(***************************************************************************)
(* C7: after a network failure or an HTTP error status on the contribution *)
(* query, get_today_contributions and get_weekly_contributions both return *)
(* None and raise nothing.                                                 *)
(***************************************************************************)
C7_FailedQueryGivesNone ==
    response.status \in {"connection_error", "timeout", "http_error"} =>
        /\ pc # "raised"
        /\ uncaught = ""
        /\ entry = "main" => contributions = PyNone
        /\ entry = "get_weekly_contributions" => weekly_total = PyNone

C7_Witness ==
    /\ entry = "get_weekly_contributions" /\ pc = "returned"
    /\ response = Response("http_error", TRUE, ErrorBody)
    /\ weekly_total = PyNone
    /\ Len(requests) = 1

(***************************************************************************)
(* C8: nothing is retried: the webhook requests issued are as many as the  *)
(* calls of send_discord_notification, and a run of main issues at most    *)
(* one contribution query and at most one webhook request, the query       *)
(* before the webhook request.                                             *)
(***************************************************************************)
C8_NoRetry ==
    /\ Cardinality(WebhookRequests) = sendCalls
    /\ entry = "main" =>
          /\ Cardinality(GithubRequests) <= 1
          /\ Cardinality(WebhookRequests) <= 1
          /\ \A i \in WebhookRequests : \E j \in GithubRequests : j < i

C8_Witness ==
    /\ entry = "main" /\ pc = "exited"
    /\ sendResult = "failed"
    /\ Len(requests) = 2
    /\ requests[1].url = GithubUrl /\ requests[2].url # GithubUrl

(***************************************************************************)
(* C9: the payload of every webhook request has the single field content,  *)
(* which is "<@", the recipient id, ">", exactly one space, and then the   *)
(* message body unchanged.                                                 *)
(***************************************************************************)
C9_PayloadContent ==
    \A i \in WebhookRequests :
        LET payload == requests[i].json
            content == payload.content
            id == env["DISCORD_USER_ID"].v
            n == Len(id)
        IN /\ DOMAIN payload = {"content"}
           /\ Len(content) = n + 4 + Len(message.v)
           /\ content[1] = "<" /\ content[2] = "@"
           /\ SubSeq(content, 3, n + 2) = id
           /\ content[n + 3] = ">"
           /\ content[n + 4] = " "
           /\ SubSeq(content, n + 5, Len(content)) = message.v

C9_Witness ==
    /\ entry = "send_discord_notification" /\ pc = "returned"
    /\ env["DISCORD_USER_ID"].v = <<"4", "2">>
    /\ message.v = <<" ", "x">>
    /\ Len(requests) = 1
    /\ requests[1].json.content = <<"<", "@", "4", "2", ">", " ", " ", "x">>

(***************************************************************************)
(* C10: in no run of main, Saturdays included, is                          *)
(* get_weekly_contributions called, a weekly query issued or a weekly      *)
(* summary message composed: the process has exited before.                *)
(***************************************************************************)
C10_WeeklyNeverRunsInMain ==
    entry = "main" =>
        /\ pc # "get_weekly_contributions"
        /\ weekly_total = NotCalled
        /\ \A i \in GithubRequests :
              requests[i].json.query # "totalContributions"
        /\ message.bound => message.v[1] # "chart"

C10_Witness ==
    /\ entry = "main" /\ pc = "exited" /\ exitCode = <<0>>
    /\ clock = [utcDay |-> 9, utcHour |-> 14]
    /\ TodayInJapan = "1970-01-10"
    /\ Len(requests) = 2

====
